---- MODULE Spec2Model ----
(***************************************************************************)
(* Rhythm Runner (flow-buster): the audio synchronisation core.            *)
(*                                                                         *)
(* AudioManager (tempo controller, beat sources), GameScene (harmony       *)
(* energy, tempo gate) and ObstacleManager (obstacle timing, judgment).    *)
(*                                                                         *)
(* Number representation (JavaScript doubles are modelled in fixed point): *)
(*   tempo          hundredths         (1.0 = 100, range 50..200)          *)
(*   harmony energy whole units                                            *)
(*   time           milliseconds       (Tone.now() and scene.time.now)     *)
(*   rms energy     units of 0.0005                                        *)
(* A division is a floor division at that resolution.  NaN is a value of   *)
(* its own, with JavaScript's comparison rules (every comparison with NaN  *)
(* is false, NaN === NaN included).                                        *)
(***************************************************************************)
EXTENDS Integers, Sequences, FiniteSets, TLC

VARIABLES
  \* AudioManager: tempo control
  currentTempo,      \* this.currentTempo
  targetTempo,       \* this.targetTempo
  tween,             \* this.tempoTransitionTween: [active, from, to, elapsed]
  \* observer of the tempo controller: the last setTempo argument, clamped,
  \* and the time ticked since that call (saturating at the duration)
  reqTempo,
  sinceReq,
  tempoLog,          \* observer: the last tempo events emitted, oldest first
  \* AudioManager: playback and beat sources
  toneNow,           \* Tone.now(), ms
  player,            \* this.player: "none" until initialize() has built the chain
  playerLoaded,      \* this.player.loaded
  loadPending,       \* a loadTrack call awaits player.load(url)
  isPlaying,         \* this.isPlaying
  beatCount,         \* this.beatCount
  lastBeatTime,      \* this.lastBeatTime, ms
  simTimer,          \* this.beatSimulationInterval: [live, next]
  audioRms,          \* this.audioData.rms, units of 0.0005
  beatDetector,      \* this.beatDetector: [energyBuffer, bufferIndex, lastEnergy]
  \* observer of the 'beat' event: the payload of the last and of the one
  \* before last beat emitted since startTrack
  beatEv,
  prevEv,
  \* ObstacleManager
  obsTempo,          \* this.currentTempo
  patternIndex,      \* this.patternIndex
  obstacles,         \* every Obstacle object spawned, in spawn order:
                     \* [sprite, beatNumber, timing, start, end, listed, quality,
                     \* events]; listed says it is still in this.obstacles,
                     \* quality is the quality its 'obstacleHit' event carried,
                     \* events counts the 'obstacleHit' and 'obstacleMissed'
                     \* events emitted for it
  sprites,           \* the members of obstacleGroup, in creation order:
                     \* [active, x, vx, fades]; fades holds the remaining ms
                     \* of the showMissEffect tweens that target the sprite
  tempoBudget,       \* 'tempoChange' events the environment of SpecObstacle
                     \* may still deliver
  \* the timing judgment as a function: its inputs and its result
  \* PlayerManager
  currentPlatform,   \* this.currentPlatform
  isJumping,         \* this.isJumping
  canSwitchPlatform, \* this.canSwitchPlatform
  playerOp,          \* observer: the last operation and the state it met
  playerOps,         \* observer: the number of operations so far
  judgeIn,           \* [start, end, t], ms
  judged,            \* "none" until the judgment has run
  \* observer of the playback calls: the transport state the calls made so
  \* far ask for ("idle" before startTrack, "playing", "paused"), and the
  \* time spent in "playing" since startTrack, ms (kept by SpecSim)
  playback,
  activeTime,
  \* GameScene
  currentBeat,       \* this.currentBeat
  harmonyEnergy,     \* this.harmonyEnergy
  \* observer of GameScene.onTempoControl: the direction of the call that
  \* has just returned and the energy it saw
  lastCtl,
  \* GameStateManager
  gsm,               \* [currentState, isGameActive, isPaused, startTime,
                     \* timeElapsed, progress, duration]: this.currentState,
                     \* the state flags, this.stats.timeElapsed,
                     \* this.level.progress (hundredths), this.level.duration
  completions,       \* observer: the 'levelCompleted' events emitted since
                     \* the constructor or the last reset()
  gsmOp              \* observer: the GameStateManager method that has just
                     \* returned, "none" before the first call

tempoVars == <<currentTempo, targetTempo, tween, reqTempo, sinceReq, tempoLog>>
audioVars == <<toneNow, player, playerLoaded, loadPending, isPlaying, beatCount,
               lastBeatTime, simTimer, audioRms, beatDetector, beatEv, prevEv>>
obstacleVars == <<obsTempo, patternIndex, obstacles, sprites, tempoBudget>>
judgeVars == <<judgeIn, judged>>
playerVars == <<currentPlatform, isJumping, canSwitchPlatform, playerOp, playerOps>>
playVars == <<playback, activeTime>>
sceneVars == <<currentBeat, harmonyEnergy, lastCtl>>
stateVars == <<gsm, completions, gsmOp>>
vars == <<tempoVars, audioVars, obstacleVars, judgeVars, playerVars, playVars,
         sceneVars, stateVars>>

----------------------------------------------------------------------------
(* GameConfig *)

MIN_TEMPO == 50
MAX_TEMPO == 200
DEFAULT_TEMPO == 100
TEMPO_TRANSITION_TIME == 300

MAX_HARMONY_ENERGY == 100
HARMONY_DRAIN_RATE_SLOW == 20
HARMONY_RESTORE_RATE == 10
HARMONY_PERFECT_BEAT_BONUS == 15
HARMONY_GOOD_BEAT_BONUS == 5

BEAT_DETECTION_SENSITIVITY == 7      \* tenths

\* new Array(43): the length of beatDetector.energyBuffer
BUFFER_LENGTH == 43

\* setInterval(..., 500): the period of the beat simulation, ms
SIM_BEAT_PERIOD == 500

\* the number value NaN
OBSTACLE_SPEED == 600
OBSTACLE_SIZE == 60
PERFECT_TIMING_WINDOW == 100
GOOD_TIMING_WINDOW == 200
GAME_WIDTH == 1920
\* calculateArrivalTime: playerX; cleanupOffscreenObjects: the margin left
\* of scrollX; showMissEffect: the duration of the fade
PLAYER_X == 200
CLEANUP_MARGIN == 100
MISS_FADE_DURATION == 500
spawnPattern == <<1, 0, 1, 1>>

\* model bound: 'tempoChange' events delivered to the obstacle manager in
\* SpecObstacle
MaxTempoChanges == 1

NaN == -1

IsNaN(x) == x = NaN

\* Math.min / Math.max on operands that are never NaN (energies, times)
Min(a, b) == IF a < b THEN a ELSE b
Max(a, b) == IF a > b THEN a ELSE b

\* Math.min / Math.max on tempo values: a NaN argument gives NaN
MathMin(a, b) == IF IsNaN(a) \/ IsNaN(b) THEN NaN ELSE Min(a, b)
MathMax(a, b) == IF IsNaN(a) \/ IsNaN(b) THEN NaN ELSE Max(a, b)

\* a === b on numbers
StrictEq(a, b) == ~IsNaN(a) /\ ~IsNaN(b) /\ a = b

\* a < b on numbers
Less(a, b) == ~IsNaN(a) /\ ~IsNaN(b) /\ a < b

\* Phaser.Math.Clamp(value, min, max) = Math.max(min, Math.min(max, value))
Clamp(value, min, max) == MathMax(min, MathMin(max, value))

----------------------------------------------------------------------------
(* GameStateManager: the state of the game and the progress of the level *)

\* this.level.duration as the class declares it, ms
LEVEL_DURATION == 180000

\* GAME_STATES.GAME_OVER and GAME_STATES.LEVEL_COMPLETE
OverStates == {"gameOver", "levelComplete"}

\* the fields after the constructor, or after reset(), at time now
NewGameState(now, duration) ==
  [currentState |-> "playing", isGameActive |-> TRUE, isPaused |-> FALSE,
   startTime |-> now, timeElapsed |-> 0, progress |-> 0, duration |-> duration]

\* update(delta) without the test of isGameActive
GSMupdateWhenOver(g, now) ==
  IF g.isPaused
  THEN g
  ELSE LET elapsed == now - g.startTime
           progress == IF g.duration > 0
                       THEN Min(100, (elapsed * 100) \div g.duration)
                       ELSE g.progress
           g1 == [g EXCEPT !.timeElapsed = elapsed, !.progress = progress]
       IN  IF progress >= 100 /\ g1.currentState = "playing"
           THEN [g1 EXCEPT !.isGameActive = FALSE, !.currentState = "levelComplete"]
           ELSE g1

\* update(delta) at scene time now: timeElapsed, updateLevelProgress() and
\* checkLevelCompletion() -> completeLevel(); the score and the performance
\* figures are not part of the model
GSMupdate(g, now) ==
  IF ~g.isGameActive \/ g.isPaused
  THEN g
  ELSE LET elapsed == now - g.startTime
           progress == IF g.duration > 0
                       THEN Min(100, (elapsed * 100) \div g.duration)
                       ELSE g.progress
           g1 == [g EXCEPT !.timeElapsed = elapsed, !.progress = progress]
       IN  IF progress >= 100 /\ g1.currentState = "playing"
           THEN [g1 EXCEPT !.isGameActive = FALSE, !.currentState = "levelComplete"]
           ELSE g1

\* 1 when the update from g to h ran completeLevel(), which emits
\* 'levelCompleted', and 0 otherwise
Completed(g, h) ==
  IF g.currentState # "levelComplete" /\ h.currentState = "levelComplete"
  THEN 1 ELSE 0

\* pauseGame()
GSMpauseGame(g) ==
  IF g.currentState = "playing"
  THEN [g EXCEPT !.isPaused = TRUE, !.currentState = "paused"]
  ELSE g

\* resumeGame() at scene time now: startTime moves on by the pause
GSMresumeGame(g, now) ==
  IF g.currentState = "paused"
  THEN [g EXCEPT !.isPaused = FALSE, !.currentState = "playing",
                 !.startTime = @ + (now - (g.startTime + g.timeElapsed))]
  ELSE g

\* endGame()
GSMendGame(g) ==
  [g EXCEPT !.isGameActive = FALSE, !.currentState = "gameOver"]

\* reset() at scene time now
GSMreset(g, now) ==
  [NewGameState(now, g.duration) EXCEPT !.progress = g.progress]

----------------------------------------------------------------------------
(* AudioManager: tempo control *)

NoTimer == [live |-> FALSE, next |-> 0]

NoBeat == [seq |-> 0, time |-> 0]

NoCtl == [dir |-> "none", energy |-> 0]

NoTween == [active |-> FALSE, from |-> 0, to |-> 0, elapsed |-> 0]

\* Phaser ease 'Power2' (Cubic.Out): 1 - (1 - p)^3 at p = elapsed/duration,
\* in 1/27000ths
EaseOvershoot(elapsed) ==
  LET k == TEMPO_TRANSITION_TIME - elapsed
  IN  ((TEMPO_TRANSITION_TIME * TEMPO_TRANSITION_TIME * TEMPO_TRANSITION_TIME
         - k * k * k) * 6) \div 5000

EasePower2(elapsed) ==
  LET k == TEMPO_TRANSITION_TIME - elapsed
  IN  (TEMPO_TRANSITION_TIME * TEMPO_TRANSITION_TIME * TEMPO_TRANSITION_TIME
        - k * k * k) \div 1000

\* tween.getValue() of the counter tween after `elapsed` ms
TweenValue(from, to, elapsed) ==
  IF IsNaN(from) \/ IsNaN(to) THEN NaN
  ELSE IF elapsed >= TEMPO_TRANSITION_TIME THEN to
  ELSE from + ((to - from) * EasePower2(elapsed)) \div 27000

\* setTempo(tempo): TRUE when the call returns early
SetTempoIgnored(tempo) ==
  StrictEq(Clamp(tempo, MIN_TEMPO, MAX_TEMPO), currentTempo)

\* setTempo(tempo): the tempo state it leaves
AMsetTempo(tempo) ==
  LET clampedTempo == Clamp(tempo, MIN_TEMPO, MAX_TEMPO)
  IN  IF SetTempoIgnored(tempo)
      THEN UNCHANGED <<currentTempo, targetTempo, tween>>
      ELSE /\ targetTempo' = clampedTempo
           /\ tween' = [active |-> TRUE, from |-> currentTempo,
                        to |-> clampedTempo, elapsed |-> 0]
           /\ UNCHANGED currentTempo

\* one TweenManager update of the counter tween: onUpdate -> applyTempo,
\* and onComplete once the duration has elapsed.  applyTempo writes to the
\* audio chain, so a tween is only stepped once initialize() has built it
AMtweenUpdate(delta) ==
  IF ~tween.active
  THEN UNCHANGED <<currentTempo, targetTempo, tween>>
  ELSE LET el == tween.elapsed + delta
       IN  IF el >= TEMPO_TRANSITION_TIME
           THEN /\ currentTempo' = targetTempo
                /\ tween' = NoTween
                /\ UNCHANGED targetTempo
           ELSE /\ currentTempo' = TweenValue(tween.from, tween.to, el)
                /\ tween' = [tween EXCEPT !.elapsed = el]
                /\ UNCHANGED targetTempo

\* frame deltas (ms)
Deltas == {100, 300}

\* arguments of setTempo: below, inside and above the range
TempoArgs == {30, 50, 75, 100, 150, 200, 250}

Saturate(t) == IF t >= TEMPO_TRANSITION_TIME THEN TEMPO_TRANSITION_TIME ELSE t

\* length of the observed tail of the tempo events
TempoLogLength == 3

\* this.emit('tempoChange', target) and this.emit('tempoChangeComplete', tempo)
Change(value) == [kind |-> "tempoChange", value |-> value]
Complete(value) == [kind |-> "tempoChangeComplete", value |-> value]

\* the observed tail after one more event
Push(log, event) ==
  IF Len(log) < TempoLogLength
  THEN Append(log, event)
  ELSE Append(Tail(log), event)

\* setTempo(tempo) if tween.stop() ran the stopped tween's onComplete
SetTempoStopCompletes(tempo) ==
  /\ AMsetTempo(tempo)
  /\ reqTempo' = tempo
  /\ sinceReq' = 0
  /\ tempoLog' = IF SetTempoIgnored(tempo) THEN tempoLog
                 ELSE IF tween.active
                 THEN Push(Push(tempoLog, Complete(targetTempo)),
                           Change(targetTempo'))
                 ELSE Push(tempoLog, Change(targetTempo'))
  /\ UNCHANGED <<audioVars, obstacleVars, judgeVars, playerVars, playVars, sceneVars, stateVars>>

SetTempo(tempo) ==
  /\ AMsetTempo(tempo)
  /\ reqTempo' = tempo
  /\ sinceReq' = 0
  /\ tempoLog' = IF SetTempoIgnored(tempo) THEN tempoLog
                 ELSE Push(tempoLog, Change(targetTempo'))
  /\ UNCHANGED <<audioVars, obstacleVars, judgeVars, playerVars, playVars, sceneVars, stateVars>>

TweenTick(delta) ==
  /\ AMtweenUpdate(delta)
  /\ sinceReq' = Saturate(sinceReq + delta)
  /\ tempoLog' = IF tween.active /\ ~tween'.active
                 THEN Push(tempoLog, Complete(currentTempo'))
                 ELSE tempoLog
  /\ UNCHANGED <<reqTempo, audioVars, obstacleVars, judgeVars, playerVars, playVars, sceneVars, stateVars>>

InitTempo ==
  /\ currentTempo = DEFAULT_TEMPO
  /\ targetTempo = DEFAULT_TEMPO
  /\ tween = NoTween
  /\ reqTempo = DEFAULT_TEMPO
  /\ sinceReq = TEMPO_TRANSITION_TIME
  /\ tempoLog = <<>>

InitObstacles ==
  /\ obsTempo = DEFAULT_TEMPO
  /\ patternIndex = 0
  /\ obstacles = <<>>
  /\ sprites = <<>>
  /\ tempoBudget = MaxTempoChanges

NoJudgment == [start |-> 0, end |-> 0, t |-> 0]

InitJudgeIdle ==
  /\ judgeIn = NoJudgment
  /\ judged = "none"

NoOp == [op |-> "none", platform |-> 0, jumping |-> FALSE]

\* the PlayerManager after its constructor
InitPlayer ==
  /\ currentPlatform = 0
  /\ isJumping = FALSE
  /\ canSwitchPlatform = FALSE
  /\ playerOp = NoOp
  /\ playerOps = 0

InitPlayback ==
  /\ playback = "idle"
  /\ activeTime = 0

\* new GameStateManager(scene) at time 0
InitState ==
  /\ gsm = NewGameState(0, LEVEL_DURATION)
  /\ completions = 0
  /\ gsmOp = "none"

InitScene ==
  /\ currentBeat = 0
  /\ harmonyEnergy = MAX_HARMONY_ENERGY
  /\ lastCtl = NoCtl
  /\ InitState

\* the audio state once initialize() has built the audio chain
InitAudio ==
  /\ toneNow = 0
  /\ player = "ready"
  /\ playerLoaded = FALSE
  /\ loadPending = FALSE
  /\ isPlaying = FALSE
  /\ beatCount = 0
  /\ lastBeatTime = 0
  /\ simTimer = NoTimer
  /\ audioRms = 0
  /\ beatDetector = [energyBuffer |-> [i \in 1..BUFFER_LENGTH |-> 0],
                     bufferIndex |-> 0, lastEnergy |-> 0]
  /\ beatEv = NoBeat
  /\ prevEv = NoBeat

Init ==
  InitTempo /\ InitAudio /\ InitObstacles /\ InitJudgeIdle /\ InitPlayback /\ InitPlayer /\ InitScene

NextTempo ==
  \/ \E tempo \in TempoArgs : SetTempo(tempo)
  \/ \E delta \in Deltas : TweenTick(delta)

SpecTempo == Init /\ [][NextTempo]_vars

\* the same with NaN among the arguments
NextTempoNaN ==
  \/ \E tempo \in TempoArgs \cup {NaN} : SetTempo(tempo)
  \/ \E delta \in Deltas : TweenTick(delta)

SpecTempoNaN == Init /\ [][NextTempoNaN]_vars

----------------------------------------------------------------------------
(* ObstacleManager: spawning, movement, timing state, judgment *)

\* setVelocityX(-OBSTACLE_SPEED * tempo), px/s
Velocity(tempo) == -((OBSTACLE_SPEED * tempo) \div 100)

\* calculateArrivalTime(spawnX) at time now, ms
calculateArrivalTime(spawnX, now, tempo) ==
  now + ((spawnX - PLAYER_X) * 100000) \div (OBSTACLE_SPEED * tempo)

\* obstacleGroup.getFirstDead(false): the first inactive member, 0 for null
getFirstDead(sp) ==
  IF \E i \in DOMAIN sp : ~sp[i].active
  THEN CHOOSE i \in DOMAIN sp :
         ~sp[i].active /\ \A j \in DOMAIN sp : ~sp[j].active => i <= j
  ELSE 0

\* a sprite some obstacle of this.obstacles refers to
Referenced(obs, i) == \E k \in DOMAIN obs : obs[k].listed /\ obs[k].sprite = i

\* onObstacleHit with the quarter of the window cut to whole milliseconds
\* onObstacleHit with the quarter of the window scaled by the current tempo
HitQualityTempoScaled(start, end, hitTime) ==
  IF /\ 4 * DEFAULT_TEMPO * hitTime
          >= 4 * DEFAULT_TEMPO * start + (end - start) * currentTempo
     /\ 4 * DEFAULT_TEMPO * hitTime
          <= 4 * DEFAULT_TEMPO * end - (end - start) * currentTempo
  THEN "perfect"
  ELSE IF hitTime >= start /\ hitTime <= end
  THEN "good"
  ELSE "miss"

\* onObstacleHit with the window shrunk by an eighth on each side
HitQualityEighth(start, end, hitTime) ==
  IF 8 * hitTime >= 8 * start + (end - start) /\ 8 * hitTime <= 8 * end - (end - start)
  THEN "perfect"
  ELSE IF hitTime >= start /\ hitTime <= end
  THEN "good"
  ELSE "miss"

HitQualityWholeQuarter(start, end, hitTime) ==
  IF hitTime >= start + (end - start) \div 4 /\ hitTime <= end - (end - start) \div 4
  THEN "perfect"
  ELSE IF hitTime >= start /\ hitTime <= end
  THEN "good"
  ELSE "miss"

\* onObstacleHit: the quality of a hit at hitTime on the window [start, end];
\* perfectStart = start + (end - start) * 0.25 and
\* perfectEnd = end - (end - start) * 0.25, compared after multiplying by 4
HitQuality(start, end, hitTime) ==
  IF 4 * hitTime >= 4 * start + (end - start) /\ 4 * hitTime <= 4 * end - (end - start)
  THEN "perfect"
  ELSE IF hitTime >= start /\ hitTime <= end
  THEN "good"
  ELSE "miss"

\* spawnObstacle with the whole GOOD_TIMING_WINDOW on each side of the arrival
spawnObstacleWideWindow(beatNumber) ==
  LET spawnX == GAME_WIDTH + OBSTACLE_SIZE
      dead == getFirstDead(sprites)
      idx == IF dead = 0 THEN Len(sprites) + 1 ELSE dead
      arrivalTime == calculateArrivalTime(spawnX, toneNow, obsTempo)
  IN  /\ sprites' =
           IF dead = 0
           THEN Append(sprites, [active |-> TRUE, x |-> spawnX,
                                 vx |-> Velocity(obsTempo), fades |-> {}])
           ELSE [sprites EXCEPT ![dead] =
                   [@ EXCEPT !.active = TRUE, !.x = spawnX,
                             !.vx = Velocity(obsTempo)]]
      /\ obstacles' =
           Append(obstacles,
                  [sprite |-> idx, beatNumber |-> beatNumber,
                   timing |-> "pending",
                   start |-> arrivalTime - GOOD_TIMING_WINDOW,
                   end |-> arrivalTime + GOOD_TIMING_WINDOW,
                   listed |-> TRUE, quality |-> "none", events |-> 0])

\* spawnObstacle(beatNumber): the sprite it takes and the obstacle it pushes
spawnObstacle(beatNumber) ==
  LET spawnX == GAME_WIDTH + OBSTACLE_SIZE
      dead == getFirstDead(sprites)
      idx == IF dead = 0 THEN Len(sprites) + 1 ELSE dead
      arrivalTime == calculateArrivalTime(spawnX, toneNow, obsTempo)
  IN  /\ sprites' =
           IF dead = 0
           THEN Append(sprites, [active |-> TRUE, x |-> spawnX,
                                 vx |-> Velocity(obsTempo), fades |-> {}])
           ELSE [sprites EXCEPT ![dead] =
                   [@ EXCEPT !.active = TRUE, !.x = spawnX,
                             !.vx = Velocity(obsTempo)]]
      /\ obstacles' =
           Append(obstacles,
                  [sprite |-> idx, beatNumber |-> beatNumber,
                   timing |-> "pending",
                   start |-> arrivalTime - GOOD_TIMING_WINDOW \div 2,
                   end |-> arrivalTime + GOOD_TIMING_WINDOW \div 2,
                   listed |-> TRUE, quality |-> "none", events |-> 0])

\* onBeat(beatNumber) without the step of patternIndex
OMonBeatKeepsIndex(beatNumber) ==
  /\ patternIndex' = patternIndex
  /\ IF spawnPattern[patternIndex + 1] = 1
     THEN spawnObstacle(beatNumber)
     ELSE UNCHANGED <<obstacles, sprites>>
  /\ UNCHANGED <<obsTempo, tempoBudget>>

\* onBeat(beatNumber); collectibles are not part of the model
OMonBeat(beatNumber) ==
  /\ patternIndex' = (patternIndex + 1) % Len(spawnPattern)
  /\ IF spawnPattern[patternIndex + 1] = 1
     THEN spawnObstacle(beatNumber)
     ELSE UNCHANGED <<obstacles, sprites>>
  /\ UNCHANGED <<obsTempo, tempoBudget>>

\* setTempo(tempo)
OMsetTempo(tempo) ==
  /\ obsTempo' = tempo
  /\ sprites' = [i \in DOMAIN sprites |->
                   IF Referenced(obstacles, i) /\ sprites[i].active
                   THEN [sprites[i] EXCEPT !.vx = Velocity(tempo)]
                   ELSE sprites[i]]

\* the tween manager steps the showMissEffect tweens by delta; onComplete
\* deactivates the target
TweensStep(sp, delta) ==
  [i \in DOMAIN sp |->
     LET left == {r - delta : r \in sp[i].fades}
     IN  [sp[i] EXCEPT !.fades = {r \in left : r > 0},
                       !.active = IF \E r \in left : r <= 0 THEN FALSE ELSE @]]

\* the test without the condition on the timing state
TurnsMissedAnyTiming(o, sp, now) ==
  o.listed /\ sp[o.sprite].active /\ now > o.end

\* updateObstacles: the test that turns obstacle o into missed
TurnsMissed(o, sp, now) ==
  o.listed /\ sp[o.sprite].active /\ o.timing = "pending" /\ now > o.end

\* updateObstacles(delta): this.obstacles afterwards
updateObstacles(obs, sp, now) ==
  [k \in DOMAIN obs |->
     IF TurnsMissed(obs[k], sp, now)
     THEN \* obstacle.timing = 'missed', and onObstacleMissed emits
          \* 'obstacleMissed'
          [obs[k] EXCEPT !.timing = "missed", !.events = @ + 1]
     ELSE obs[k]]

\* updateObstacles(delta): onObstacleMissed -> showMissEffect adds a fade
\* tween on the sprite of each obstacle that turned missed
showMissEffect(obs, sp, now) ==
  [i \in DOMAIN sp |->
     IF \E k \in DOMAIN obs : obs[k].sprite = i /\ TurnsMissed(obs[k], sp, now)
     THEN [sp[i] EXCEPT !.fades = @ \cup {MISS_FADE_DURATION}]
     ELSE sp[i]]

\* cleanupOffscreenObjects: the filter drops obstacle o (scrollX is 0)
Offscreen(o, sp) == o.listed /\ sp[o.sprite].x < -CLEANUP_MARGIN

\* cleanupOffscreenObjects(): this.obstacles afterwards
cleanupObstacles(obs, sp) ==
  [k \in DOMAIN obs |->
     IF Offscreen(obs[k], sp) THEN [obs[k] EXCEPT !.listed = FALSE] ELSE obs[k]]

\* cleanupOffscreenObjects(): the sprites afterwards
cleanupSprites(obs, sp) ==
  [i \in DOMAIN sp |->
     IF \E k \in DOMAIN obs : obs[k].sprite = i /\ Offscreen(obs[k], sp)
     THEN [sp[i] EXCEPT !.active = FALSE]
     ELSE sp[i]]

\* the physics step: bodies move by velocity * delta.  The position of a
\* sprite no obstacle of this.obstacles refers to is read by nothing before
\* setPosition at its reuse, so it is left as it is
PhysicsStep(obs, sp, delta) ==
  [i \in DOMAIN sp |->
     IF Referenced(obs, i)
     THEN [sp[i] EXCEPT !.x = @ + (sp[i].vx * delta) \div 1000]
     ELSE sp[i]]

\* checkObstacleHit without the test of the timing state
\* checkObstacleHit without the test of the timing state for missed obstacles
HitCandidatesMissedToo(s) ==
  {k \in DOMAIN obstacles :
     obstacles[k].listed /\ obstacles[k].sprite = s
       /\ obstacles[k].timing \in {"pending", "missed"} /\ sprites[s].active}

HitCandidatesAnyState(s) ==
  {k \in DOMAIN obstacles :
     obstacles[k].listed /\ obstacles[k].sprite = s /\ sprites[s].active}

\* checkObstacleHit(playerSprite): the obstacles the loop may hit when the
\* player sprite is within reach of sprite s
HitCandidates(s) ==
  {k \in DOMAIN obstacles :
     obstacles[k].listed /\ obstacles[k].sprite = s
       /\ obstacles[k].timing = "pending" /\ sprites[s].active}

\* onObstacleHit: obstacle.timing = 'hit', whatever the quality
HitTiming(quality) == "hit"

----------------------------------------------------------------------------
(* GameScene: harmony energy and the tempo gate *)

\* updateHarmonyEnergy without the Math.max(0, ...) around the drain
\* updateHarmonyEnergy with the drain rate halved
EnergyAfterTickHalfDrain(energy, tempo, delta) ==
  IF Less(tempo, DEFAULT_TEMPO)
  THEN LET drain == (HARMONY_DRAIN_RATE_SLOW * (DEFAULT_TEMPO - tempo) * delta)
                      \div 200000
       IN  Max(0, energy - drain)
  ELSE IF StrictEq(tempo, DEFAULT_TEMPO)
  THEN Min(MAX_HARMONY_ENERGY,
               energy + (HARMONY_RESTORE_RATE * delta) \div 1000)
  ELSE energy

\* updateHarmonyEnergy without the clamp of the restored energy
EnergyAfterTickRestoreUnclamped(energy, tempo, delta) ==
  IF Less(tempo, DEFAULT_TEMPO)
  THEN LET drain == (HARMONY_DRAIN_RATE_SLOW * (DEFAULT_TEMPO - tempo) * delta)
                      \div 100000
       IN  Max(0, energy - drain)
  ELSE IF StrictEq(tempo, DEFAULT_TEMPO)
  THEN energy + (HARMONY_RESTORE_RATE * delta) \div 1000
  ELSE energy

\* updateHarmonyEnergy restoring at every tempo that is not below the default
EnergyAfterTickRestoreAbove(energy, tempo, delta) ==
  IF Less(tempo, DEFAULT_TEMPO)
  THEN LET drain == (HARMONY_DRAIN_RATE_SLOW * (DEFAULT_TEMPO - tempo) * delta)
                      \div 100000
       IN  Max(0, energy - drain)
  ELSE Min(MAX_HARMONY_ENERGY,
               energy + (HARMONY_RESTORE_RATE * delta) \div 1000)

EnergyAfterTickUnclamped(energy, tempo, delta) ==
  IF Less(tempo, DEFAULT_TEMPO)
  THEN energy - (HARMONY_DRAIN_RATE_SLOW * (DEFAULT_TEMPO - tempo) * delta) \div 100000
  ELSE IF StrictEq(tempo, DEFAULT_TEMPO)
  THEN Min(MAX_HARMONY_ENERGY,
               energy + (HARMONY_RESTORE_RATE * delta) \div 1000)
  ELSE energy

\* updateHarmonyEnergy(delta) at tempo `tempo`: the new energy.
\* drainRate * delta / 1000 with drainRate = RATE * (DEFAULT - tempo), tempo
\* in hundredths
EnergyAfterTick(energy, tempo, delta) ==
  IF Less(tempo, DEFAULT_TEMPO)
  THEN LET drain == (HARMONY_DRAIN_RATE_SLOW * (DEFAULT_TEMPO - tempo) * delta)
                      \div 100000
       IN  Max(0, energy - drain)
  ELSE IF StrictEq(tempo, DEFAULT_TEMPO)
  THEN Min(MAX_HARMONY_ENERGY,
               energy + (HARMONY_RESTORE_RATE * delta) \div 1000)
  ELSE energy

\* the harmonyEnergy part of GameScene.onObstacleHit(timing)
EnergyAfterHit(energy, timing) ==
  CASE timing = "perfect" ->
         Min(MAX_HARMONY_ENERGY, energy + HARMONY_PERFECT_BEAT_BONUS)
    [] timing = "good" ->
         Min(MAX_HARMONY_ENERGY, energy + HARMONY_GOOD_BEAT_BONUS)
    [] OTHER -> energy

\* onTempoControl(direction): the switch statement
DirectionTempo(direction) ==
  CASE direction = "slow" -> MIN_TEMPO
    [] direction = "fast" -> MAX_TEMPO
    [] OTHER -> DEFAULT_TEMPO

\* onTempoControl(direction): TRUE when the energy gate returns early
GateRejects(direction) == harmonyEnergy <= 0 /\ direction # "normal"

Directions == {"slow", "fast", "normal"}
Qualities == {"perfect", "good", "miss"}

\* onTempoControl(direction) with an ObstacleManager.setTempo that moves the
\* hit window of every pending obstacle to the arrival at the new tempo
onTempoControlRetimes(direction) ==
  /\ IF GateRejects(direction)
     THEN UNCHANGED <<currentTempo, targetTempo, tween>>
     ELSE AMsetTempo(DirectionTempo(direction))
  /\ IF GateRejects(direction) \/ SetTempoIgnored(DirectionTempo(direction))
     THEN UNCHANGED <<obsTempo, sprites, obstacles>>
     ELSE /\ OMsetTempo(targetTempo')
          /\ obstacles' =
               [k \in DOMAIN obstacles |->
                  IF obstacles[k].timing = "pending"
                  THEN LET arrival ==
                             calculateArrivalTime(sprites[obstacles[k].sprite].x,
                                                  toneNow, targetTempo')
                       IN  [obstacles[k] EXCEPT
                              !.start = arrival - GOOD_TIMING_WINDOW \div 2,
                              !.end = arrival + GOOD_TIMING_WINDOW \div 2]
                  ELSE obstacles[k]]
  /\ lastCtl' = [dir |-> direction, energy |-> harmonyEnergy]
  /\ UNCHANGED <<harmonyEnergy, currentBeat, stateVars, reqTempo, sinceReq, tempoLog, audioVars,
                 patternIndex, judgeVars, playerVars, playVars>>

\* onTempoControl(direction) with a 'tempoChange' event that carries the
\* current tempo in place of the target
onTempoControlEased(direction) ==
  /\ IF GateRejects(direction)
     THEN UNCHANGED <<currentTempo, targetTempo, tween>>
     ELSE AMsetTempo(DirectionTempo(direction))
  /\ IF GateRejects(direction) \/ SetTempoIgnored(DirectionTempo(direction))
     THEN UNCHANGED <<obsTempo, sprites>>
     ELSE OMsetTempo(currentTempo')
  /\ lastCtl' = [dir |-> direction, energy |-> harmonyEnergy]
  /\ UNCHANGED <<harmonyEnergy, currentBeat, stateVars, reqTempo, sinceReq, tempoLog, audioVars,
                 patternIndex, obstacles, judgeVars, playerVars, playVars>>

\* GameScene.onTempoControl(direction), with the listener of the
\* 'tempoChange' event that setTempo emits
onTempoControl(direction) ==
  /\ IF GateRejects(direction)
     THEN UNCHANGED <<currentTempo, targetTempo, tween>>
     ELSE AMsetTempo(DirectionTempo(direction))
  /\ IF GateRejects(direction) \/ SetTempoIgnored(DirectionTempo(direction))
     THEN UNCHANGED <<obsTempo, sprites>>
     ELSE \* 'tempoChange' -> onTempoChange -> obstacleManager.setTempo
          OMsetTempo(targetTempo')
  /\ lastCtl' = [dir |-> direction, energy |-> harmonyEnergy]
  /\ UNCHANGED <<harmonyEnergy, currentBeat, stateVars, reqTempo, sinceReq, tempoLog, audioVars,
                 patternIndex, obstacles, judgeVars, playerVars, playVars>>

TempoControl(direction) ==
  /\ onTempoControl(direction)
  /\ UNCHANGED tempoBudget

\* one frame of the scene: the tween manager steps the tempo tween, then
\* GameScene.update(time, delta) runs updateHarmonyEnergy(delta)
EnergyFrame(delta) ==
  /\ AMtweenUpdate(delta)
  /\ harmonyEnergy' = EnergyAfterTick(harmonyEnergy, currentTempo', delta)
  /\ lastCtl' = NoCtl
  /\ UNCHANGED <<currentBeat, stateVars, reqTempo, sinceReq, tempoLog, audioVars, obstacleVars, judgeVars, playerVars, playVars>>

\* GameScene.onObstacleHit(timing), the listener of 'obstacleHit'
SceneObstacleHit(timing) ==
  /\ harmonyEnergy' = EnergyAfterHit(harmonyEnergy, timing)
  /\ lastCtl' = NoCtl
  /\ UNCHANGED <<currentBeat, stateVars, tempoVars, audioVars, obstacleVars, judgeVars, playerVars, playVars>>

NextEnergy ==
  \/ \E direction \in Directions : TempoControl(direction)
  \/ \E delta \in Deltas : EnergyFrame(delta)
  \/ \E timing \in Qualities : SceneObstacleHit(timing)

SpecEnergy == Init /\ [][NextEnergy]_vars

\* the scene with a player who never asks for 'normal': tempo requests for
\* 'slow' and 'fast' only, and the frames, which Phaser keeps running
NextGate ==
  \/ \E direction \in {"slow", "fast"} : TempoControl(direction)
  \/ \E delta \in Deltas : EnergyFrame(delta)

SpecGate ==
  Init /\ [][NextGate]_vars /\ WF_vars(\E delta \in Deltas : EnergyFrame(delta))

(***************************************************************************)
(* The scene with the tempo held: no tempo control, only frames.  The     *)
(* game is running (startGame has started the track), activeTime counts   *)
(* the time of the frames since the start state.                          *)
(***************************************************************************)
MaxHoldTicks == 120

\* start states: the tempo at rest at MIN_TEMPO with full energy, and at
\* DEFAULT_TEMPO with half the energy
HoldStarts ==
  { [tempo |-> MIN_TEMPO, energy |-> MAX_HARMONY_ENERGY],
    [tempo |-> DEFAULT_TEMPO, energy |-> MAX_HARMONY_ENERGY \div 2] }

InitHold ==
  /\ \E h \in HoldStarts :
       /\ currentTempo = h.tempo
       /\ targetTempo = h.tempo
       /\ harmonyEnergy = h.energy
  /\ tween = NoTween
  /\ reqTempo = DEFAULT_TEMPO
  /\ sinceReq = 0
  /\ tempoLog = <<>>
  /\ InitAudio
  /\ InitObstacles
  /\ InitJudgeIdle
  /\ InitPlayer
  /\ playback = "playing"
  /\ activeTime = 0
  /\ currentBeat = 0
  /\ lastCtl = NoCtl
  /\ InitState

\* GameScene.update(time, delta) with no tempo transition requested
HoldFrame(delta) ==
  /\ activeTime + delta <= MaxHoldTicks * 100
  /\ AMtweenUpdate(delta)
  /\ harmonyEnergy' = EnergyAfterTick(harmonyEnergy, currentTempo', delta)
  /\ activeTime' = activeTime + delta
  /\ UNCHANGED <<currentBeat, stateVars, lastCtl, reqTempo, sinceReq, tempoLog, audioVars,
                 obstacleVars, judgeVars, playerVars, playback>>

NextHold == \E delta \in Deltas : HoldFrame(delta)

SpecHold == InitHold /\ [][NextHold]_vars

----------------------------------------------------------------------------
(* AudioManager: playback, simulated beats, energy beat detection *)

\* model bounds: the clock stops at MaxTimeTicks * 100 ms, and at most
\* MaxLoudFrames frames at or above the noise floor are analysed
MaxTimeTicks == 9
MaxLoudFrames == 2

\* the noise floor 0.001 of updateBeatDetection, in units of 0.0005
NOISE_FLOOR == 2

\* this.audioData.rms as the analyser reports it, in units of 0.0005:
\* silence, a signal below the noise floor (0.0005), and two signals above
\* it (0.2 and 0.6)
RmsInputs == {0, 1, 400, 1200}

RECURSIVE SumSeq(_)
SumSeq(q) == IF q = <<>> THEN 0 ELSE Head(q) + SumSeq(Tail(q))

RECURSIVE SumSquares(_)
SumSquares(q) == IF q = <<>> THEN 0 ELSE Head(q) * Head(q) + SumSquares(Tail(q))

\* the write with the index advancing by two slots
BufferWriteSkipsSlot(det, energy) ==
  [det EXCEPT !.energyBuffer[det.bufferIndex + 1] = energy,
              !.bufferIndex = (det.bufferIndex + 2) % BUFFER_LENGTH]

\* the energy buffer after the write at bufferIndex (0-based)
BufferWrite(det, energy) ==
  [det EXCEPT !.energyBuffer[det.bufferIndex + 1] = energy,
              !.bufferIndex = (det.bufferIndex + 1) % BUFFER_LENGTH]

\* variance of the buffer, in squares of the rms unit (units of 0.25e-6)
Variance(buffer) ==
  (BUFFER_LENGTH * SumSquares(buffer) - SumSeq(buffer) * SumSeq(buffer))
    \div (BUFFER_LENGTH * BUFFER_LENGTH)

\* threshold = beatThreshold * (1 + variance * 0.5), thousandths
Threshold(buffer) ==
  (BEAT_DETECTION_SENSITIVITY * (8000000 + Variance(buffer))) \div 80000

\* the interval test without the division by currentTempo
PastMinIntervalUnscaled(now, last, tempo) ==
  ~IsNaN(tempo) /\ (now - last) * DEFAULT_TEMPO > 30000

\* timeSinceLastBeat > 60.0 / 200.0 / currentTempo
PastMinInterval(now, last, tempo) ==
  ~IsNaN(tempo) /\ (now - last) * tempo > 30000

\* the condition of the if statement that declares a beat; avgEnergy is
\* SumSeq(buffer) / BUFFER_LENGTH
IsBeat(buffer, energy, lastEnergy, now, last, tempo) ==
  /\ energy * BUFFER_LENGTH * 1000 > Threshold(buffer) * SumSeq(buffer)
  /\ energy > lastEnergy
  /\ PastMinInterval(now, last, tempo)

\* onBeatDetected(time)
AMonBeatDetected(time) ==
  /\ lastBeatTime' = time
  /\ beatCount' = beatCount + 1
  /\ beatEv' = [seq |-> beatCount + 1, time |-> time]
  /\ prevEv' = beatEv

\* simulateBeats(): the interval it leaves
AMsimulateBeats == [live |-> TRUE, next |-> toneNow + SIM_BEAT_PERIOD]

\* createSilentTrack()
AMcreateSilentTrack ==
  /\ isPlaying' = FALSE
  /\ simTimer' = AMsimulateBeats

\* the constructor's initialize() resumes after Tone.start() and builds the
\* audio chain
InitializeDone ==
  /\ player = "none"
  /\ player' = "ready"
  /\ UNCHANGED <<toneNow, playerLoaded, loadPending, isPlaying, beatCount,
                 lastBeatTime, simTimer, audioRms, beatDetector, beatEv, prevEv>>
  /\ UNCHANGED <<tempoVars, obstacleVars, judgeVars, playerVars, playVars, sceneVars, stateVars>>

\* loadTrack(trackKey) up to its first await; cached says whether the
\* Phaser cache holds the audio buffer
LoadTrack(cached) ==
  /\ ~loadPending
  /\ IF cached /\ player = "ready"
     THEN /\ loadPending' = TRUE
          /\ UNCHANGED <<isPlaying, simTimer>>
     ELSE \* no buffer, or this.player is undefined and the call throws
          \* into the catch block: createSilentTrack() either way
          /\ AMcreateSilentTrack
          /\ UNCHANGED loadPending
  /\ UNCHANGED <<toneNow, player, playerLoaded, beatCount, lastBeatTime,
                 audioRms, beatDetector, beatEv, prevEv>>
  /\ UNCHANGED <<tempoVars, obstacleVars, judgeVars, playerVars, playVars, sceneVars, stateVars>>

\* loadTrack after await this.player.load(url): resolved or rejected
LoadSettles(ok) ==
  /\ loadPending
  /\ loadPending' = FALSE
  /\ IF ok
     THEN /\ playerLoaded' = TRUE
          /\ UNCHANGED <<isPlaying, simTimer>>
     ELSE /\ AMcreateSilentTrack
          /\ UNCHANGED playerLoaded
  /\ UNCHANGED <<toneNow, player, beatCount, lastBeatTime, audioRms,
                 beatDetector, beatEv, prevEv>>
  /\ UNCHANGED <<tempoVars, obstacleVars, judgeVars, playerVars, playVars, sceneVars, stateVars>>

\* startTrack() without the reset of the beat counter
StartTrackKeepsCount ==
  /\ isPlaying' = TRUE
  /\ lastBeatTime' = toneNow
  /\ simTimer' = [live |-> TRUE, next |-> toneNow + SIM_BEAT_PERIOD]
  /\ beatEv' = NoBeat
  /\ prevEv' = NoBeat
  /\ playback' = "playing"
  /\ activeTime' = 0
  /\ UNCHANGED <<toneNow, player, playerLoaded, loadPending, audioRms,
                 beatDetector, beatCount>>
  /\ UNCHANGED <<tempoVars, obstacleVars, judgeVars, playerVars, sceneVars, stateVars>>

\* startTrack()
StartTrack ==
  /\ isPlaying' = TRUE
  /\ beatCount' = 0
  /\ lastBeatTime' = toneNow
  /\ simTimer' = AMsimulateBeats
  /\ beatEv' = NoBeat
  /\ prevEv' = NoBeat
  /\ playback' = "playing"
  /\ activeTime' = 0
  /\ UNCHANGED <<toneNow, player, playerLoaded, loadPending, audioRms, beatDetector>>
  /\ UNCHANGED <<tempoVars, obstacleVars, judgeVars, playerVars, sceneVars, stateVars>>

\* pauseTrack(); this.player.stop() throws while this.player is undefined
PauseTrack ==
  /\ isPlaying' = IF isPlaying /\ player = "ready" THEN FALSE ELSE isPlaying
  /\ playback' = IF playback = "playing" THEN "paused" ELSE playback
  /\ UNCHANGED <<toneNow, player, playerLoaded, loadPending, beatCount,
                 lastBeatTime, simTimer, audioRms, beatDetector, beatEv, prevEv>>
  /\ UNCHANGED <<tempoVars, obstacleVars, judgeVars, playerVars, activeTime, sceneVars, stateVars>>

\* resumeTrack(); this.player.loaded throws while this.player is undefined
ResumeTrack ==
  /\ isPlaying' = IF ~isPlaying /\ player = "ready" /\ playerLoaded
                  THEN TRUE ELSE isPlaying
  /\ playback' = IF playback = "paused" THEN "playing" ELSE playback
  /\ UNCHANGED <<toneNow, player, playerLoaded, loadPending, beatCount,
                 lastBeatTime, simTimer, audioRms, beatDetector, beatEv, prevEv>>
  /\ UNCHANGED <<tempoVars, obstacleVars, judgeVars, playerVars, activeTime, sceneVars, stateVars>>

\* the setInterval callback of simulateBeats()
simulateBeatsCallback ==
  /\ simTimer.live
  /\ toneNow = simTimer.next
  /\ simTimer' = [simTimer EXCEPT !.next = toneNow + SIM_BEAT_PERIOD]
  /\ IF isPlaying
     THEN AMonBeatDetected(toneNow)
     ELSE UNCHANGED <<lastBeatTime, beatCount, beatEv, prevEv>>
  /\ UNCHANGED <<toneNow, player, playerLoaded, loadPending, isPlaying,
                 audioRms, beatDetector>>

\* the interval fires, no listener on 'beat'
SimTimerFire ==
  /\ simulateBeatsCallback
  /\ UNCHANGED <<tempoVars, obstacleVars, judgeVars, playerVars, playVars, sceneVars, stateVars>>

\* update(delta) with updateBeatDetection() lacking the noise-floor return
AMupdateNoFloor(now, rms) ==
  IF ~isPlaying
  THEN UNCHANGED <<audioRms, beatDetector, lastBeatTime, beatCount, beatEv, prevEv>>
  ELSE LET energy == IF player = "ready" THEN rms ELSE audioRms
           det == BufferWrite(beatDetector, energy)
       IN  /\ audioRms' = energy
           /\ beatDetector' = [det EXCEPT !.lastEnergy = energy]
           /\ IF IsBeat(det.energyBuffer, energy, beatDetector.lastEnergy,
                        now, lastBeatTime, currentTempo')
              THEN AMonBeatDetected(now)
              ELSE UNCHANGED <<lastBeatTime, beatCount, beatEv, prevEv>>

\* update(delta) at time now: updateAudioAnalysis() reads rms from the
\* analyser (there is none before initialize() is done), then
\* updateBeatDetection()
AMupdate(now, rms) ==
  IF ~isPlaying
  THEN UNCHANGED <<audioRms, beatDetector, lastBeatTime, beatCount, beatEv, prevEv>>
  ELSE LET energy == IF player = "ready" THEN rms ELSE audioRms
           det == BufferWrite(beatDetector, energy)
       IN  /\ audioRms' = energy
           /\ IF energy < NOISE_FLOOR
              THEN UNCHANGED <<beatDetector, lastBeatTime, beatCount, beatEv, prevEv>>
              ELSE /\ beatDetector' = [det EXCEPT !.lastEnergy = energy]
                   /\ IF IsBeat(det.energyBuffer, energy, beatDetector.lastEnergy,
                                now, lastBeatTime, currentTempo')
                      THEN AMonBeatDetected(now)
                      ELSE UNCHANGED <<lastBeatTime, beatCount, beatEv, prevEv>>

\* the clock may advance by delta: not past the bound and not past a due
\* interval callback
CanAdvance(delta) ==
  /\ toneNow + delta <= MaxTimeTicks * 100
  /\ simTimer.live => toneNow + delta <= simTimer.next

\* one frame, delta ms after the last: the tween manager steps the tempo
\* tween, then AudioManager.update(delta) runs
AudioFrame(delta, rms) ==
  /\ CanAdvance(delta)
  /\ rms >= NOISE_FLOOR => beatDetector.bufferIndex < MaxLoudFrames
  /\ toneNow' = toneNow + delta
  /\ AMtweenUpdate(delta)
  /\ AMupdate(toneNow + delta, rms)
  /\ UNCHANGED <<player, playerLoaded, loadPending, isPlaying, simTimer>>
  /\ UNCHANGED <<reqTempo, sinceReq, tempoLog, obstacleVars, judgeVars, playerVars, playVars, sceneVars, stateVars>>

\* setTempo(tempo) between frames, once the audio chain exists; here a new
\* request waits for the transition in flight to end (SpecTempo covers
\* overlapping requests)
BeatSetTempo(tempo) ==
  /\ player = "ready"
  /\ ~tween.active
  /\ AMsetTempo(tempo)
  /\ UNCHANGED <<reqTempo, sinceReq, tempoLog, audioVars, obstacleVars, judgeVars, playerVars, playVars, sceneVars, stateVars>>

\* the audio state once new AudioManager(scene) and loadTrack(key) have
\* settled: the track loaded, or the silent fallback with its interval
\* (set up before or after initialize() built the chain)
InitAudioLoaded ==
  /\ toneNow = 0
  /\ \/ player = "ready" /\ playerLoaded = TRUE /\ simTimer = NoTimer
     \/ /\ player \in {"none", "ready"}
        /\ playerLoaded = FALSE
        /\ simTimer = [live |-> TRUE, next |-> SIM_BEAT_PERIOD]
  /\ loadPending = FALSE
  /\ isPlaying = FALSE
  /\ beatCount = 0
  /\ lastBeatTime = 0
  /\ audioRms = 0
  /\ beatDetector = [energyBuffer |-> [i \in 1..BUFFER_LENGTH |-> 0],
                     bufferIndex |-> 0, lastEnergy |-> 0]
  /\ beatEv = NoBeat
  /\ prevEv = NoBeat

InitBeat ==
  /\ InitTempo /\ InitAudioLoaded /\ InitObstacles /\ InitJudgeIdle
  /\ InitPlayback /\ InitPlayer /\ InitScene

NextBeat ==
  \/ InitializeDone
  \/ StartTrack
  \/ PauseTrack
  \/ ResumeTrack
  \/ SimTimerFire
  \/ \E delta \in Deltas, rms \in RmsInputs : AudioFrame(delta, rms)
  \/ \E tempo \in {MIN_TEMPO, DEFAULT_TEMPO, MAX_TEMPO} : BeatSetTempo(tempo)

SpecBeat == InitBeat /\ [][NextBeat]_vars

(***************************************************************************)
(* The energy history over more frames than it has slots: a loaded track   *)
(* is playing, and the signal rises by one unit with every frame the       *)
(* detector analyses, so that every analysed energy is told from the       *)
(* others.                                                                 *)
(***************************************************************************)
\* model bound: the clock of SpecRing stops at MaxRingTicks * 100 ms
MaxRingTicks == 50

\* new AudioManager, initialize(), a loadTrack that loaded the track, and
\* startTrack()
InitAudioPlaying ==
  /\ toneNow = 0
  /\ player = "ready"
  /\ playerLoaded = TRUE
  /\ loadPending = FALSE
  /\ isPlaying = TRUE
  /\ beatCount = 0
  /\ lastBeatTime = 0
  /\ simTimer = [live |-> TRUE, next |-> SIM_BEAT_PERIOD]
  /\ audioRms = 0
  /\ beatDetector = [energyBuffer |-> [i \in 1..BUFFER_LENGTH |-> 0],
                     bufferIndex |-> 0, lastEnergy |-> 0]
  /\ beatEv = NoBeat
  /\ prevEv = NoBeat

InitRing ==
  /\ InitTempo /\ InitAudioPlaying /\ InitObstacles /\ InitJudgeIdle
  /\ InitPlayer /\ InitScene
  /\ playback = "playing"
  /\ activeTime = 0

\* this.audioData.rms of the next frame: silence, a signal below the noise
\* floor, or one unit above the last energy the detector analysed
RisingInputs == {0, 1, Max(NOISE_FLOOR, beatDetector.lastEnergy + 1)}

\* one frame, delta ms after the last: the tween manager steps the tempo
\* tween, then AudioManager.update(delta) runs
RingFrame(delta, rms) ==
  /\ toneNow + delta <= MaxRingTicks * 100
  /\ simTimer.live => toneNow + delta <= simTimer.next
  /\ toneNow' = toneNow + delta
  /\ AMtweenUpdate(delta)
  /\ AMupdate(toneNow + delta, rms)
  /\ UNCHANGED <<player, playerLoaded, loadPending, isPlaying, simTimer>>
  /\ UNCHANGED <<reqTempo, sinceReq, tempoLog, obstacleVars, judgeVars, playerVars, playVars, sceneVars, stateVars>>

NextRing ==
  \/ SimTimerFire
  \/ \E delta \in Deltas, rms \in RisingInputs : RingFrame(delta, rms)

SpecRing == InitRing /\ [][NextRing]_vars

----------------------------------------------------------------------------
(* AudioManager in simulation mode: no audio asset, beats from the interval *)

\* model bound: the clock of SpecSim stops at MaxSimTicks * 100 ms
MaxSimTicks == 12

\* loadTrack(key) found no asset and fell back to createSilentTrack();
\* initialize() may or may not have built the chain yet
InitAudioSim ==
  /\ toneNow = 0
  /\ player \in {"none", "ready"}
  /\ playerLoaded = FALSE
  /\ loadPending = FALSE
  /\ isPlaying = FALSE
  /\ beatCount = 0
  /\ lastBeatTime = 0
  /\ simTimer = [live |-> TRUE, next |-> SIM_BEAT_PERIOD]
  /\ audioRms = 0
  /\ beatDetector = [energyBuffer |-> [i \in 1..BUFFER_LENGTH |-> 0],
                     bufferIndex |-> 0, lastEnergy |-> 0]
  /\ beatEv = NoBeat
  /\ prevEv = NoBeat

InitSim ==
  /\ InitTempo /\ InitAudioSim /\ InitObstacles /\ InitJudgeIdle
  /\ InitPlayback /\ InitPlayer /\ InitScene

\* one frame, delta ms after the last, with no signal at the analyser:
\* AudioManager.update(delta)
SimFrame(delta) ==
  /\ toneNow + delta <= MaxSimTicks * 100
  /\ simTimer.live => toneNow + delta <= simTimer.next
  /\ toneNow' = toneNow + delta
  /\ AMtweenUpdate(delta)
  /\ AMupdate(toneNow + delta, 0)
  /\ activeTime' = IF playback = "playing" THEN activeTime + delta ELSE activeTime
  /\ UNCHANGED <<player, playerLoaded, loadPending, isPlaying, simTimer, playback>>
  /\ UNCHANGED <<reqTempo, sinceReq, tempoLog, obstacleVars, judgeVars, playerVars, sceneVars, stateVars>>

NextSim ==
  \/ InitializeDone
  \/ StartTrack
  \/ PauseTrack
  \/ ResumeTrack
  \/ SimTimerFire
  \/ \E delta \in Deltas : SimFrame(delta)

SpecSim == InitSim /\ [][NextSim]_vars

(***************************************************************************)
(* Loading a track: loadTrack and its asynchronous outcome interleaved     *)
(* with initialize() and startTrack().                                     *)
(***************************************************************************)
\* the AudioManager after its constructor: initialize() is waiting for
\* Tone.start(), no track was asked for
InitAudioNew ==
  /\ toneNow = 0
  /\ player = "none"
  /\ playerLoaded = FALSE
  /\ loadPending = FALSE
  /\ isPlaying = FALSE
  /\ beatCount = 0
  /\ lastBeatTime = 0
  /\ simTimer = NoTimer
  /\ audioRms = 0
  /\ beatDetector = [energyBuffer |-> [i \in 1..BUFFER_LENGTH |-> 0],
                     bufferIndex |-> 0, lastEnergy |-> 0]
  /\ beatEv = NoBeat
  /\ prevEv = NoBeat

InitLoad ==
  /\ InitTempo /\ InitAudioNew /\ InitObstacles /\ InitJudgeIdle
  /\ InitPlayback /\ InitPlayer /\ InitScene

\* GameScene.setupGameSystems() asks for the track before startGame()
SetupLoadTrack(cached) ==
  /\ playback = "idle"
  /\ LoadTrack(cached)

NextLoad ==
  \/ InitializeDone
  \/ \E cached \in BOOLEAN : SetupLoadTrack(cached)
  \/ \E ok \in BOOLEAN : LoadSettles(ok)
  \/ StartTrack
  \/ SimTimerFire
  \/ \E delta \in Deltas : SimFrame(delta)

SpecLoad == InitLoad /\ [][NextLoad]_vars

(***************************************************************************)
(* The life of an AudioManager up to dispose(): the calls loadTrack,       *)
(* startTrack and dispose in any order, dispose being the last call, with  *)
(* the outcome of a pending load and the interval callbacks in between.    *)
(***************************************************************************)
\* dispose(): the tempo tween is stopped and the interval cleared; the
\* fields of the manager stay as they are
Dispose ==
  /\ playback # "disposed"
  /\ playback' = "disposed"
  /\ tween' = NoTween
  /\ simTimer' = [simTimer EXCEPT !.live = FALSE]
  /\ UNCHANGED <<currentTempo, targetTempo, reqTempo, sinceReq, tempoLog>>
  /\ UNCHANGED <<toneNow, player, playerLoaded, loadPending, isPlaying, beatCount,
                 lastBeatTime, audioRms, beatDetector, beatEv, prevEv>>
  /\ UNCHANGED <<obstacleVars, judgeVars, playerVars, activeTime, sceneVars, stateVars>>

\* loadTrack(trackKey) called on a manager that was not disposed
LiveLoadTrack(cached) ==
  /\ playback # "disposed"
  /\ LoadTrack(cached)

\* startTrack() called on a manager that was not disposed
LiveStartTrack ==
  /\ playback # "disposed"
  /\ StartTrack

NextDispose ==
  \/ InitializeDone
  \/ \E cached \in BOOLEAN : LiveLoadTrack(cached)
  \/ \E ok \in BOOLEAN : LoadSettles(ok)
  \/ LiveStartTrack
  \/ Dispose
  \/ SimTimerFire
  \/ \E delta \in Deltas : SimFrame(delta)

SpecDispose == InitLoad /\ [][NextDispose]_vars

----------------------------------------------------------------------------
(* The running game: GameScene with its managers, in simulation mode *)

\* model bounds: SpecObstacle runs MaxObsTicks frames, and at most MaxHits
\* obstacles are hit
MaxObsTicks == 15
MaxHits == 1

\* frame period of SpecObstacle, ms
GameDeltas == {250}

\* create() and startGame() have run: loadTrack fell back to the silent
\* track and startTrack() started the beat simulation
InitAudioStarted ==
  /\ toneNow = 0
  /\ player = "ready"
  /\ playerLoaded = FALSE
  /\ loadPending = FALSE
  /\ isPlaying = TRUE
  /\ beatCount = 0
  /\ lastBeatTime = 0
  /\ simTimer = [live |-> TRUE, next |-> SIM_BEAT_PERIOD]
  /\ audioRms = 0
  /\ beatDetector = [energyBuffer |-> [i \in 1..BUFFER_LENGTH |-> 0],
                     bufferIndex |-> 0, lastEnergy |-> 0]
  /\ beatEv = NoBeat
  /\ prevEv = NoBeat

InitGame ==
  /\ InitTempo /\ InitAudioStarted /\ InitObstacles /\ InitJudgeIdle /\ InitScene
  /\ InitPlayer
  /\ playback = "playing"
  /\ activeTime = 0

\* the beat simulation fires: 'beat' -> GameScene.onBeat(beatNumber) ->
\* obstacleManager.onBeat(beatNumber)
GameBeat ==
  /\ simulateBeatsCallback
  /\ isPlaying
  /\ currentBeat' = beatCount'
  /\ OMonBeat(beatCount')
  /\ lastCtl' = NoCtl
  /\ UNCHANGED <<tempoVars, judgeVars, playerVars, playVars, harmonyEnergy, stateVars>>

\* ObstacleManager.update(delta) between the tween step and the physics step
OMupdate(delta) ==
  LET now == toneNow + delta
      sp1 == TweensStep(sprites, delta)
      obs2 == updateObstacles(obstacles, sp1, now)
      sp2 == showMissEffect(obstacles, sp1, now)
      obs3 == cleanupObstacles(obs2, sp2)
      sp3 == cleanupSprites(obs2, sp2)
  IN  /\ obstacles' = obs3
      /\ sprites' = PhysicsStep(obs3, sp3, delta)

\* one frame of the running game, delta ms after the last: the tween
\* manager steps the tweens, GameScene.update(time, delta) runs the managers
\* and updateHarmonyEnergy(delta), the physics world moves the bodies; the
\* silent track gives the analyser no signal
GameFrame(delta) ==
  /\ toneNow + delta <= MaxObsTicks * delta
  /\ toneNow + delta <= simTimer.next
  /\ toneNow' = toneNow + delta
  /\ AMtweenUpdate(delta)
  /\ AMupdate(toneNow + delta, 0)
  /\ OMupdate(delta)
  /\ gsm' = GSMupdate(gsm, toneNow + delta)
  /\ completions' = completions + Completed(gsm, gsm')
  /\ gsmOp' = "update"
  /\ harmonyEnergy' = EnergyAfterTick(harmonyEnergy, currentTempo', delta)
  /\ lastCtl' = NoCtl
  /\ UNCHANGED <<player, playerLoaded, loadPending, isPlaying, simTimer>>
  /\ UNCHANGED <<reqTempo, sinceReq, tempoLog, obsTempo, patternIndex, tempoBudget,
                 judgeVars, playerVars, playVars, currentBeat>>

\* the player asks for a tempo: GameScene.onTempoControl(direction)
GameTempoControl(direction) ==
  /\ tempoBudget > 0
  /\ tempoBudget' = tempoBudget - 1
  /\ onTempoControl(direction)

\* the obstacles hit so far
HitCount == Cardinality({k \in DOMAIN obstacles : obstacles[k].timing = "hit"})

\* the first obstacle of this.obstacles that checkObstacleHit hits on
\* sprite s (the hit deactivates the sprite, which excludes the others)
FirstOf(candidates) == CHOOSE k \in candidates : \A j \in candidates : k <= j

\* checkObstacleHit(playerSprite) with the player sprite within
\* (PLAYER_SIZE + OBSTACLE_SIZE) / 2 of sprite s: onObstacleHit on the
\* obstacle it finds, and GameScene.onObstacleHit, the listener of
\* 'obstacleHit'
checkObstacleHit(s) ==
  /\ HitCount < MaxHits
  /\ HitCandidates(s) # {}
  /\ LET k == FirstOf(HitCandidates(s))
         quality == HitQuality(obstacles[k].start, obstacles[k].end, toneNow)
     IN  /\ obstacles' = [obstacles EXCEPT ![k].timing = HitTiming(quality),
                                           ![k].quality = quality,
                                           ![k].events = @ + 1]
         /\ sprites' = [sprites EXCEPT ![s].active = FALSE]
         /\ harmonyEnergy' = EnergyAfterHit(harmonyEnergy, quality)
  /\ lastCtl' = NoCtl
  /\ UNCHANGED <<tempoVars, audioVars, obsTempo, patternIndex, tempoBudget,
                 judgeVars, playerVars, playVars, currentBeat, stateVars>>

NextObstacle ==
  \/ GameBeat
  \/ \E delta \in GameDeltas : GameFrame(delta)
  \/ \E direction \in Directions : GameTempoControl(direction)
  \/ \E s \in DOMAIN sprites : checkObstacleHit(s)

SpecObstacle == InitGame /\ [][NextObstacle]_vars

----------------------------------------------------------------------------
(* The timing judgment as a function of its inputs *)

\* model bound: window bounds and action times range over 0..MaxJudgeTime
MaxJudgeTime == 8

InitJudge ==
  /\ InitTempo /\ InitAudio /\ InitObstacles /\ InitPlayback /\ InitPlayer /\ InitScene
  /\ judgeIn \in {in \in [start : 0..MaxJudgeTime, end : 0..MaxJudgeTime,
                         t : 0..MaxJudgeTime] : in.start <= in.end}
  /\ judged = "none"

\* onObstacleHit judges an action at judgeIn.t against the window
Judge ==
  /\ judged = "none"
  /\ judged' = HitQuality(judgeIn.start, judgeIn.end, judgeIn.t)
  /\ UNCHANGED <<judgeIn, playerVars, tempoVars, audioVars, obstacleVars, playVars, sceneVars, stateVars>>

NextJudge == Judge

SpecJudge == InitJudge /\ [][NextJudge]_vars

(***************************************************************************)
(* The judgment of one window, [1000 ms, 1200 ms], in changing contexts    *)
(* and against the frame that marks obstacles missed.                      *)
(***************************************************************************)
\* the hit window of the scenario, ms
ScenarioWindow == [start |-> 1000, end |-> 1200]

\* the latest action or frame time of the scenario, ms
MaxScenarioTime == 1260

\* action times judged while tempo and energy change in between
ContextTimes == {1030, 1100, 1250}

InitJudgeContext ==
  /\ InitTempo /\ InitAudio /\ InitObstacles /\ InitPlayback /\ InitPlayer /\ InitScene
  /\ judgeIn \in [start : {ScenarioWindow.start}, end : {ScenarioWindow.end},
                  t : ContextTimes]
  /\ judged = "none"

\* onObstacleHit judges the same window and action time once more, in the
\* state the game is in by then
ReJudge ==
  /\ judged # "none"
  /\ judged' = HitQuality(judgeIn.start, judgeIn.end, judgeIn.t)
  /\ UNCHANGED <<judgeIn, playerVars, tempoVars, audioVars, obstacleVars, playVars, sceneVars, stateVars>>

NextJudgeContext ==
  \/ Judge
  \/ ReJudge
  \/ \E direction \in Directions : TempoControl(direction)
  \/ \E delta \in Deltas : EnergyFrame(delta)

SpecJudgeContext == InitJudgeContext /\ [][NextJudgeContext]_vars

\* the scenario's obstacle, pending on an active sprite, and that sprite
ScenarioObstacle ==
  [listed |-> TRUE, sprite |-> 1, timing |-> "pending",
   start |-> judgeIn.start, end |-> judgeIn.end, events |-> 0]

ScenarioSprites == <<[active |-> TRUE]>>

\* an action, or else a frame, at any ms around the window
InitScenario ==
  /\ InitTempo /\ InitAudio /\ InitObstacles /\ InitPlayback /\ InitPlayer /\ InitScene
  /\ judgeIn \in [start : {ScenarioWindow.start}, end : {ScenarioWindow.end},
                  t : (ScenarioWindow.start - 20)..MaxScenarioTime]
  /\ judged = "none"

\* no action came: the frame at judgeIn.t runs updateObstacles, which marks
\* the pending obstacle missed once the time is past the window
MissedByUpdate ==
  /\ judged = "none"
  /\ updateObstacles(<<ScenarioObstacle>>, ScenarioSprites, judgeIn.t)[1].timing
       = "missed"
  /\ judged' = "missed"
  /\ UNCHANGED <<judgeIn, playerVars, tempoVars, audioVars, obstacleVars, playVars, sceneVars, stateVars>>

NextScenario == Judge \/ MissedByUpdate

SpecScenario == InitScenario /\ [][NextScenario]_vars

(***************************************************************************)
(* PlayerManager: jumping and platform switching.                          *)
(***************************************************************************)
PLATFORM_COUNT == 3
MaxPlayerOps == 8

\* the observers of one more operation
Observed(name) ==
  /\ playerOps < MaxPlayerOps
  /\ playerOps' = playerOps + 1
  /\ playerOp' = [op |-> name, platform |-> currentPlatform, jumping |-> isJumping]

\* jump()
Jump ==
  /\ Observed("jump")
  /\ IF isJumping
     THEN UNCHANGED <<isJumping, canSwitchPlatform>>
     ELSE isJumping' = TRUE /\ canSwitchPlatform' = TRUE
  /\ UNCHANGED currentPlatform
  /\ UNCHANGED <<tempoVars, audioVars, obstacleVars, judgeVars, playVars, sceneVars, stateVars>>

\* switchPlatform(direction): this.currentPlatform afterwards
PlatformAfterSwitch(direction) ==
  IF ~canSwitchPlatform
  THEN currentPlatform
  ELSE IF direction = "up"
  THEN Min(PLATFORM_COUNT - 1, currentPlatform + 1)
  ELSE Max(0, currentPlatform - 1)

\* switchPlatform(direction)
SwitchPlatform(direction) ==
  /\ Observed(direction)
  /\ currentPlatform' = PlatformAfterSwitch(direction)
  /\ UNCHANGED <<isJumping, canSwitchPlatform>>
  /\ UNCHANGED <<tempoVars, audioVars, obstacleVars, judgeVars, playVars, sceneVars, stateVars>>

\* landOnPlatform() without the reset of canSwitchPlatform
LandKeepsSwitch ==
  /\ isJumping
  /\ Observed("land")
  /\ isJumping' = FALSE
  /\ UNCHANGED <<canSwitchPlatform, currentPlatform>>
  /\ UNCHANGED <<tempoVars, audioVars, obstacleVars, judgeVars, playVars, sceneVars, stateVars>>

\* updateJumpState() finds the falling player at the platform:
\* landOnPlatform()
Land ==
  /\ isJumping
  /\ Observed("land")
  /\ isJumping' = FALSE
  /\ canSwitchPlatform' = FALSE
  /\ UNCHANGED currentPlatform
  /\ UNCHANGED <<tempoVars, audioVars, obstacleVars, judgeVars, playVars, sceneVars, stateVars>>

\* resetPlayer()
ResetPlayer ==
  /\ Observed("reset")
  /\ currentPlatform' = 0
  /\ isJumping' = FALSE
  /\ canSwitchPlatform' = FALSE
  /\ UNCHANGED <<tempoVars, audioVars, obstacleVars, judgeVars, playVars, sceneVars, stateVars>>

NextPlayer ==
  \/ Jump
  \/ \E direction \in {"up", "down"} : SwitchPlatform(direction)
  \/ Land
  \/ ResetPlayer

SpecPlayer == Init /\ [][NextPlayer]_vars

----------------------------------------------------------------------------
(* GameStateManager driven through its public methods *)

MaxStateTicks == 12

\* the durations a level is given, ms; 0 stands for a level without one
LevelDurations == {0, 400, 700}

\* setLevelData(levelData): a missing or zero duration becomes the default
SetLevelData(duration) ==
  /\ gsm' = [gsm EXCEPT !.duration = IF duration = 0 THEN LEVEL_DURATION
                                                      ELSE duration]
  /\ gsmOp' = "setLevelData"
  /\ UNCHANGED <<completions, tempoVars, audioVars, obstacleVars, judgeVars,
                 playerVars, playVars, sceneVars>>

\* one frame of the scene clock and GameStateManager.update(delta)
StateUpdate(delta) ==
  /\ toneNow + delta <= MaxStateTicks * 100
  /\ toneNow' = toneNow + delta
  /\ gsm' = GSMupdate(gsm, toneNow')
  /\ completions' = completions + Completed(gsm, gsm')
  /\ gsmOp' = "update"
  /\ UNCHANGED <<player, playerLoaded, loadPending, isPlaying, beatCount,
                 lastBeatTime, simTimer, audioRms, beatDetector, beatEv, prevEv,
                 tempoVars, obstacleVars, judgeVars, playerVars, playVars,
                 sceneVars>>

PauseGame ==
  /\ gsm' = GSMpauseGame(gsm)
  /\ gsmOp' = "pauseGame"
  /\ UNCHANGED <<completions, tempoVars, audioVars, obstacleVars, judgeVars,
                 playerVars, playVars, sceneVars>>

ResumeGame ==
  /\ gsm' = GSMresumeGame(gsm, toneNow)
  /\ gsmOp' = "resumeGame"
  /\ UNCHANGED <<completions, tempoVars, audioVars, obstacleVars, judgeVars,
                 playerVars, playVars, sceneVars>>

EndGame ==
  /\ gsm' = GSMendGame(gsm)
  /\ gsmOp' = "endGame"
  /\ UNCHANGED <<completions, tempoVars, audioVars, obstacleVars, judgeVars,
                 playerVars, playVars, sceneVars>>

ResetGame ==
  /\ gsm' = GSMreset(gsm, toneNow)
  /\ completions' = 0
  /\ gsmOp' = "reset"
  /\ UNCHANGED <<tempoVars, audioVars, obstacleVars, judgeVars, playerVars,
                 playVars, sceneVars>>

NextState ==
  \/ \E duration \in LevelDurations : SetLevelData(duration)
  \/ \E delta \in Deltas : StateUpdate(delta)
  \/ PauseGame
  \/ ResumeGame
  \/ EndGame
  \/ ResetGame

SpecState == Init /\ [][NextState]_vars

----------------------------------------------------------------------------
(* Claims *)

\* C1: within one track run the sequence numbers of the 'beat' events are
\* 1, 2, 3, ...: the first beat after startTrack carries 1 and each later
\* one carries one more than the beat before it, and no beat carries an
\* earlier timestamp than the beat before it.
C1_BeatSequence ==
  beatEv # NoBeat =>
    /\ beatEv.seq = (IF prevEv = NoBeat THEN 1 ELSE prevEv.seq + 1)
    /\ prevEv # NoBeat => beatEv.time >= prevEv.time

\* a third beat of a run has been emitted
C1_Witness == prevEv # NoBeat /\ beatEv.seq = 3

\* the clamp of the specification: x brought into [MIN_TEMPO, MAX_TEMPO]
ClampedRequest(x) ==
  IF x < MIN_TEMPO THEN MIN_TEMPO ELSE IF x > MAX_TEMPO THEN MAX_TEMPO ELSE x

\* C2: once TEMPO_TRANSITION_TIME has been ticked since the last
\* setTempo(x), the current tempo equals x clamped into
\* [MIN_TEMPO, MAX_TEMPO].
C2_ReachesRequest ==
  sinceReq >= TEMPO_TRANSITION_TIME => currentTempo = ClampedRequest(reqTempo)

\* C3: the harmony energy lies in [0, MAX_HARMONY_ENERGY] in every state.
C3_EnergyInRange == harmonyEnergy >= 0 /\ harmonyEnergy <= MAX_HARMONY_ENERGY

\* the drain has emptied the energy while the tempo is still slow, and a
\* tick at that tempo would take it below zero without the clamp
C3_Witness ==
  /\ harmonyEnergy = 0
  /\ currentTempo = MIN_TEMPO
  /\ ~tween.active

\* C4: the current and the target tempo lie in [MIN_TEMPO, MAX_TEMPO] in
\* every state, whatever the arguments of setTempo.
C4_TempoInRange ==
  /\ ~IsNaN(currentTempo) /\ currentTempo >= MIN_TEMPO /\ currentTempo <= MAX_TEMPO
  /\ ~IsNaN(targetTempo) /\ targetTempo >= MIN_TEMPO /\ targetTempo <= MAX_TEMPO

\* the judgment the specification defines, in exact arithmetic: Perfect in
\* [start + (end-start)/4, end - (end-start)/4], Good in the rest of
\* [start, end], Miss outside
SpecJudgment(start, end, t) ==
  LET inPerfect == 4 * t >= 3 * start + end /\ 4 * t <= start + 3 * end
      inWindow == start <= t /\ t <= end
  IN  IF inPerfect THEN "perfect" ELSE IF inWindow THEN "good" ELSE "miss"

\* C5: the judgment of an action at t against [start, end], start <= end,
\* is Perfect iff t lies in the inner half of the window, Good iff it lies
\* in the window but not in the inner half, and Miss otherwise.
C5_JudgmentFormula ==
  judged # "none" =>
    judged = SpecJudgment(judgeIn.start, judgeIn.end, judgeIn.t)

\* a judgment at the exact upper edge of the inner half of a window whose
\* quarter is not a whole number of ms
C5_Witness ==
  /\ judged = "good"
  /\ judgeIn.start = 1 /\ judgeIn.end = 7 /\ judgeIn.t = 6

\* C6: the timing state of an obstacle only moves from pending to hit or
\* from pending to missed; a hit or missed obstacle keeps its state.
C6_TimingOneWay ==
  [][\A k \in DOMAIN obstacles :
       /\ obstacles'[k].timing # obstacles[k].timing
            => obstacles[k].timing = "pending"
                 /\ obstacles'[k].timing \in {"hit", "missed"}]_vars

\* a missed obstacle whose sprite is still active (its fade is running,
\* so a collision check can reach it) next to a hit obstacle
C6_Witness ==
  \E k, j \in DOMAIN obstacles :
    /\ obstacles[k].timing = "missed" /\ obstacles[k].listed
    /\ sprites[obstacles[k].sprite].active
    /\ obstacles[j].timing = "hit"

\* C7: an obstacle that is pending when the time exceeds its
\* hitWindow.end is missed after the next update tick: no obstacle is
\* pending in a state whose time is past the end of its window.
C7_MissedWhenOverdue ==
  \A k \in DOMAIN obstacles :
    obstacles[k].timing = "pending" => toneNow <= obstacles[k].end

\* C8: an obstacle in the hit state was reported with quality perfect or
\* good.
C8_HitMeansInWindow ==
  \A k \in DOMAIN obstacles :
    obstacles[k].timing = "hit" => obstacles[k].quality \in {"perfect", "good"}

\* C9: after a slow or fast request made at zero energy the tempo target
\* is DEFAULT_TEMPO.
C9_RejectedMeansDefault ==
  (lastCtl.dir \in {"slow", "fast"} /\ lastCtl.energy = 0)
    => targetTempo = DEFAULT_TEMPO

\* C10: after a request made with positive energy the tempo target is
\* MIN_TEMPO for slow, MAX_TEMPO for fast and DEFAULT_TEMPO for normal.
C10_DirectionSetsTarget ==
  (lastCtl.dir \in Directions /\ lastCtl.energy > 0)
    => targetTempo = DirectionTempo(lastCtl.dir)

\* C11: between a pauseTrack and the following resumeTrack or startTrack
\* the beat counter does not change and no 'beat' event fires.
C11_NoBeatWhilePaused ==
  [][(playback = "paused" /\ playback' = "paused")
       => (beatCount' = beatCount /\ beatEv' = beatEv)]_vars

\* C12: in simulation mode the n-th beat is emitted when the time spent
\* playing reaches n * 0.5 s: while the track is to play and no interval
\* callback is due, the beat counter is the number of whole half seconds of
\* playing time (stated for runs whose audio chain exists).
C12_BeatPerHalfSecond ==
  (player = "ready" /\ playback = "playing" /\ toneNow < simTimer.next)
    => beatCount = activeTime \div SIM_BEAT_PERIOD

\* C13: in simulation mode, after pauseTrack followed by resumeTrack the
\* track is playing again.
C13_ResumePlays ==
  (~playerLoaded /\ playback = "playing") => isPlaying

\* v lies between a and b, ends included
Between(v, a, b) == (a <= v /\ v <= b) \/ (b <= v /\ v <= a)

\* C14: a setTempo call made during a transition replaces it: the
\* transition in flight is always the one to the latest request, a
\* transition that has just been requested starts from the current value,
\* and the current tempo lies between the endpoints of the transition in
\* flight.
C14_ReplacesInFlight ==
  tween.active =>
    /\ tween.to = ClampedRequest(reqTempo)
    /\ (sinceReq = 0 /\ tween.elapsed = 0) => tween.from = currentTempo
    /\ Between(currentTempo, tween.from, tween.to)

\* C15: a setTempo call whose clamped value equals the target of the
\* transition in flight leaves that transition as it is (start value and
\* elapsed time unchanged); 'tempoChange' is emitted exactly by the calls
\* that install a new transition.
C15_SameTargetNoOp ==
  [][(tween.active /\ sinceReq > 0 /\ sinceReq' = 0
        /\ ClampedRequest(reqTempo') = tween.to)
       => tween' = tween]_vars

\* the distance of v from the target t
Distance(v, t) == IF v >= t THEN v - t ELSE t - v

\* C16: within one transition every applied tempo lies between the start
\* and the target, and no applied tempo is farther from the target than the
\* one before it.
C16_MonotoneNoOvershoot ==
  [][(tween.active /\ sinceReq' > sinceReq)
       => /\ Between(currentTempo', tween.from, tween.to)
          /\ Distance(currentTempo', tween.to) <= Distance(currentTempo, tween.to)]_vars

\* a transition from the default tempo to the maximum, two ticks in, with
\* the tempo strictly between its endpoints
C16_Witness ==
  /\ tween.active /\ tween.elapsed = 200
  /\ tween.from = DEFAULT_TEMPO /\ tween.to = MAX_TEMPO
  /\ currentTempo > DEFAULT_TEMPO /\ currentTempo < MAX_TEMPO

\* C17: with the tempo held at 0.5 and the energy starting at 100, after 10
\* seconds of frames (in any partition) the energy is 0, and it stays 0
C17_DrainedAfterTenSeconds ==
  (currentTempo = MIN_TEMPO /\ activeTime >= 10000) => harmonyEnergy = 0

C17_Witness ==
  currentTempo = MIN_TEMPO /\ activeTime = 10300 /\ harmonyEnergy = 0

\* C18: with the tempo held at exactly 1.0 and the energy starting at 50,
\* after 5 seconds of frames the energy is 100, and it stays 100
C18_RestoredAfterFiveSeconds ==
  (currentTempo = DEFAULT_TEMPO /\ activeTime >= 5000)
    => harmonyEnergy = MAX_HARMONY_ENERGY

C18_Witness ==
  /\ currentTempo = DEFAULT_TEMPO
  /\ activeTime = 5300
  /\ harmonyEnergy = MAX_HARMONY_ENERGY

\* C19: a frame's energy tick at a tempo strictly above the default leaves
\* the energy unchanged, at rest and at every value of a transition
C19_NoChangeAboveDefault ==
  [][\A delta \in Deltas :
       (EnergyFrame(delta) /\ currentTempo' > DEFAULT_TEMPO)
         => harmonyEnergy' = harmonyEnergy]_vars

C19_Witness ==
  /\ tween.active
  /\ tween.elapsed > 0
  /\ currentTempo > DEFAULT_TEMPO
  /\ currentTempo < MAX_TEMPO
  /\ harmonyEnergy > 0
  /\ harmonyEnergy < MAX_HARMONY_ENERGY

\* C20: a collision check never judges an obstacle that is already missed:
\* the obstacle gets no Perfect or Good judgment, stays missed, and a step
\* other than a frame in which no pending obstacle is hit leaves the energy
C20_MissedNeverJudged ==
  [][/\ \A k \in DOMAIN obstacles :
          (obstacles[k].listed /\ obstacles[k].timing = "missed")
            => /\ obstacles'[k].timing = "missed"
               /\ obstacles'[k].quality \notin {"perfect", "good"}
               /\ obstacles'[k].quality = obstacles[k].quality
     /\ (/\ toneNow' = toneNow
         /\ \A j \in DOMAIN obstacles :
              obstacles[j].timing = "pending" => obstacles'[j].timing # "hit")
          => harmonyEnergy' = harmonyEnergy]_vars

\* a missed obstacle whose sprite is still active while a collision check
\* may still run
C20_Witness ==
  \E k \in DOMAIN obstacles :
    /\ obstacles[k].listed
    /\ obstacles[k].timing = "missed"
    /\ obstacles[k].quality = "none"
    /\ sprites[obstacles[k].sprite].active
    /\ HitCount < MaxHits

\* C21: whatever the order of the load outcome and startTrack, once the
\* track was started it is playing and the simulation timer is running
C21_FallbackKeepsPlaying ==
  playback = "playing" => (isPlaying /\ simTimer.live)

\* tempo is a number in [MIN_TEMPO, MAX_TEMPO]
ValidTempo(tempo) == ~IsNaN(tempo) /\ tempo >= MIN_TEMPO /\ tempo <= MAX_TEMPO

\* C22: when the last setTempo argument was invalid (NaN or outside the
\* range), the target tempo and the current tempo are valid numbers in
\* [MIN_TEMPO, MAX_TEMPO], at the call and at every later tick
C22_InvalidRequestClamped ==
  ~ValidTempo(reqTempo) => (ValidTempo(targetTempo) /\ ValidTempo(currentTempo))

\* C23: a frame whose energy is below the noise floor emits no beat of the
\* energy detector, whatever the buffer, the previous energy and the time
\* since the last beat are (frames are the steps that advance the clock)
C23_NoBeatBelowFloor ==
  [][(toneNow' > toneNow /\ audioRms' < NOISE_FLOOR)
       => (beatEv' = beatEv /\ beatCount' = beatCount
             /\ beatDetector' = beatDetector)]_vars

\* a playing track just analysed a frame with a signal below the floor,
\* louder than the previous energy and later than the minimum interval
C23_Witness ==
  /\ isPlaying
  /\ player = "ready"
  /\ audioRms > 0
  /\ audioRms < NOISE_FLOOR
  /\ audioRms > beatDetector.lastEnergy
  /\ PastMinInterval(toneNow, lastBeatTime, currentTempo)

\* C24: startTrack resets the detector: the beat counter restarts (the next
\* beat is number 1) and the energy buffer and the previous energy are
\* zero again, whatever frames were analysed before
C24_ResetClearsDetector ==
  [][StartTrack
       => /\ beatCount' = 0
          /\ beatDetector'.energyBuffer = [i \in 1..BUFFER_LENGTH |-> 0]
          /\ beatDetector'.lastEnergy = 0]_vars

\* the beat condition of the specification for a frame with energy `energy`
\* at time `now`: energy > threshold * mean, energy > previous energy, and
\* more than 60/200/tempo seconds since the last beat (ms * hundredths)
SpecBeatCondition(buffer, energy, previous, now, last, tempo) ==
  /\ energy * BUFFER_LENGTH * 1000 > Threshold(buffer) * SumSeq(buffer)
  /\ energy > previous
  /\ (now - last) * tempo > 300 * DEFAULT_TEMPO

C26_TempoEvents ==
  [][/\ (tween' # tween /\ tween'.active /\ tween'.elapsed = 0)
          => tempoLog' = Push(tempoLog, Change(tween'.to))
     /\ (tween.active /\ ~tween'.active)
          => tempoLog' = Push(tempoLog, Complete(tween.to))
     /\ (tempoLog' # tempoLog
           /\ tempoLog'[Len(tempoLog')].kind = "tempoChangeComplete")
          => /\ tempoLog # <<>>
             /\ tempoLog[Len(tempoLog)]
                  = Change(tempoLog'[Len(tempoLog')].value)]_vars

\* a transition was superseded part-way and the one that replaced it ran
\* its full duration
C26_Witness ==
  /\ Len(tempoLog) = 3
  /\ tempoLog[1].kind = "tempoChange"
  /\ tempoLog[2].kind = "tempoChange"
  /\ tempoLog[2].value # tempoLog[1].value
  /\ tempoLog[3] = Complete(tempoLog[2].value)
  /\ currentTempo = tempoLog[2].value

C28_ScenarioAsStated ==
  /\ judged \in {"perfect", "good", "miss"}
       => /\ judged = "perfect" <=> (judgeIn.t >= 1025 /\ judgeIn.t <= 1175)
          /\ judgeIn.t = 1100 => judged = "perfect"
          /\ judgeIn.t = 1020 => judged = "good"
          /\ judgeIn.t = 1250 => judged = "miss"
  /\ judged = "missed" => judgeIn.t > 1200
  /\ (judged = "none" /\ judgeIn.t > 1200) => ENABLED MissedByUpdate

\* C28 amended: the Perfect interval of the window [1000, 1200] is
\* 1050..1150 (the window shrunk by a quarter of its length on each side);
\* 1100 is Perfect, 1020 is Good, 1250 is Miss, and with no action the
\* obstacle is missed exactly when a frame runs after 1200
C28_ScenarioInnerHalf ==
  /\ judged \in {"perfect", "good", "miss"}
       => /\ judged = "perfect" <=> (judgeIn.t >= 1050 /\ judgeIn.t <= 1150)
          /\ judged = "good"
               <=> \/ judgeIn.t >= 1000 /\ judgeIn.t < 1050
                   \/ judgeIn.t > 1150 /\ judgeIn.t <= 1200
          /\ judgeIn.t = 1100 => judged = "perfect"
          /\ judgeIn.t = 1020 => judged = "good"
          /\ judgeIn.t = 1250 => judged = "miss"
  /\ judged = "missed" => judgeIn.t > 1200
  /\ judged = "none" => (ENABLED MissedByUpdate <=> judgeIn.t > 1200)

\* an action at 1030 ms, inside 1025..1175 and outside the inner half, was
\* judged Good
C28_Witness ==
  judgeIn.start = 1000 /\ judgeIn.end = 1200 /\ judgeIn.t = 1030 /\ judged = "good"

\* C29: switchPlatform changes the platform only while the player is in
\* the air (after a jump, before the landing or a reset) and then by one;
\* jump while jumping changes nothing; the platform stays in 0..2
C29_SwitchOnlyAirborne ==
  /\ currentPlatform \in 0..(PLATFORM_COUNT - 1)
  /\ playerOp.op \in {"up", "down"}
       => /\ currentPlatform - playerOp.platform \in {-1, 0, 1}
          /\ currentPlatform # playerOp.platform => playerOp.jumping
          /\ isJumping = playerOp.jumping
  /\ (playerOp.op = "jump" /\ playerOp.jumping)
       => (isJumping /\ currentPlatform = playerOp.platform)
  /\ playerOp.op \in {"jump", "land"} => currentPlatform = playerOp.platform

\* the player landed on the top platform and asked to switch down on the
\* ground: nothing changed
C29_Witness ==
  /\ playerOp = [op |-> "down", platform |-> 2, jumping |-> FALSE]
  /\ currentPlatform = 2
  /\ ~isJumping

\* C30: the simulation interval emits a beat (a beat emitted without the
\* clock advancing) only while the analysed signal is below the noise floor
C30_SimulationOnlyWithoutSignal ==
  [][(toneNow' = toneNow /\ beatEv' # beatEv /\ beatEv' # NoBeat)
       => audioRms < NOISE_FLOOR]_vars

\* C31: without any 'normal' input, once the energy has reached 0 while the
\* tempo is below DEFAULT_TEMPO, the tempo eventually is DEFAULT_TEMPO again
C31_EmptyEnergyRestoresTempo ==
  (harmonyEnergy = 0 /\ Less(currentTempo, DEFAULT_TEMPO))
    ~> (currentTempo = DEFAULT_TEMPO)

\* the energy of the n-th frame analysed under SpecRing
RingEnergy(n) == n + NOISE_FLOOR - 1

\* the number of frames analysed so far under SpecRing
Analysed ==
  IF beatDetector.lastEnergy = 0 THEN 0
  ELSE beatDetector.lastEnergy - NOISE_FLOOR + 1

\* the 0-based slot the n-th analysed frame is written to
SlotOf(n) == (n - 1) % BUFFER_LENGTH

C33_DrainsAtSlowRate ==
  currentTempo = MIN_TEMPO
    => harmonyEnergy
         = Max(0, MAX_HARMONY_ENERGY - (HARMONY_DRAIN_RATE_SLOW * activeTime) \div 1000)

\* the arrival estimate of an obstacle spawned in the current state
SpawnArrival == calculateArrivalTime(GAME_WIDTH + OBSTACLE_SIZE, toneNow, obsTempo)

\* C34: the hit window of every obstacle spawned is its arrival estimate
\* +/- GOOD_TIMING_WINDOW / 2, the judgment calls Perfect exactly the times
\* within PERFECT_TIMING_WINDOW / 2 of the arrival estimate, which lie
\* strictly inside the hit window; and 0 < PERFECT_TIMING_WINDOW <
\* GOOD_TIMING_WINDOW
C34_WindowsAroundArrival ==
  /\ [](PERFECT_TIMING_WINDOW < GOOD_TIMING_WINDOW /\ GOOD_TIMING_WINDOW > 0)
  /\ [][Len(obstacles') > Len(obstacles)
         => LET o == obstacles'[Len(obstacles')]
            IN  /\ o.start = SpawnArrival - GOOD_TIMING_WINDOW \div 2
                /\ o.end = SpawnArrival + GOOD_TIMING_WINDOW \div 2
                /\ \A t \in (o.start - 1)..(o.end + 1) :
                     HitQuality(o.start, o.end, t) = "perfect"
                       <=> /\ 2 * t >= 2 * SpawnArrival - PERFECT_TIMING_WINDOW
                           /\ 2 * t <= 2 * SpawnArrival + PERFECT_TIMING_WINDOW
                /\ HitQuality(o.start, o.end, o.start) # "perfect"
                /\ HitQuality(o.start, o.end, o.end) # "perfect"]_vars

\* an obstacle was hit inside its Perfect sub-window, and another obstacle
\* was spawned with its window elsewhere
C34_Witness ==
  \E k \in DOMAIN obstacles :
    /\ obstacles[k].quality = "perfect"
    /\ obstacles[k].end - obstacles[k].start = GOOD_TIMING_WINDOW
    /\ \E j \in DOMAIN obstacles :
         obstacles[j].end - obstacles[j].start = GOOD_TIMING_WINDOW
           /\ obstacles[j].start # obstacles[k].start

\* the obstacles spawned for the beats first..(first + 3)
SpawnedInFour(first) ==
  {k \in DOMAIN obstacles : obstacles[k].beatNumber \in first..(first + 3)}

\* C35: every beat moves the pattern index one position on in the pattern
\* of length 4 and spawns an obstacle exactly when the pattern has a 1 at the
\* position it leaves; the obstacle spawned is pending and carries the
\* number of that beat; nothing but a beat spawns an obstacle; and any four
\* consecutive beats have spawned exactly three obstacles
C35_PatternPerBeat ==
  /\ [](\A first \in 1..beatCount :
          first + 3 <= beatCount => Cardinality(SpawnedInFour(first)) = 3)
  /\ [][beatEv' # beatEv
         => /\ patternIndex' = (patternIndex + 1) % Len(spawnPattern)
            /\ Len(obstacles')
                 = Len(obstacles) + spawnPattern[patternIndex + 1]]_vars
  /\ [][Len(obstacles') # Len(obstacles)
         => /\ beatEv' # beatEv
            /\ Len(obstacles') = Len(obstacles) + 1
            /\ obstacles'[Len(obstacles')].timing = "pending"
            /\ obstacles'[Len(obstacles')].beatNumber = beatEv'.seq]_vars

\* five beats have come: the pattern has wrapped around, beats 1, 3, 4 and
\* 5 have spawned an obstacle and beat 2 has not
C35_Witness ==
  /\ beatCount = 5
  /\ patternIndex = 1
  /\ Len(obstacles) = 4
  /\ \A k \in DOMAIN obstacles : obstacles[k].beatNumber # 2

\* C36: in every state the tempo held by ObstacleManager is the target
\* tempo of AudioManager
C36_ObstacleTempoIsTarget == obsTempo = targetTempo

\* a transition is in flight: the eased current tempo has left the old
\* value and not reached the target, which ObstacleManager already holds
C36_Witness ==
  /\ tween.active
  /\ tween.elapsed > 0
  /\ currentTempo # targetTempo
  /\ currentTempo # tween.from
  /\ obsTempo = MIN_TEMPO

\* the hit window of the obstacle that the first beat spawns at the default
\* tempo
FirstSpawnWindow ==
  LET arrival == calculateArrivalTime(GAME_WIDTH + OBSTACLE_SIZE,
                                      SIM_BEAT_PERIOD, DEFAULT_TEMPO)
  IN  [start |-> arrival - GOOD_TIMING_WINDOW \div 2,
       end |-> arrival + GOOD_TIMING_WINDOW \div 2]

\* C37: a step that changes the tempo of ObstacleManager keeps the
\* obstacles there are, with their hit windows, timing states and beat
\* numbers, and keeps every sprite where and as it is but for its velocity
C37_TempoChangeKeepsWindows ==
  [][obsTempo' # obsTempo
      => /\ DOMAIN obstacles' = DOMAIN obstacles
         /\ \A k \in DOMAIN obstacles :
              /\ obstacles'[k].start = obstacles[k].start
              /\ obstacles'[k].end = obstacles[k].end
              /\ obstacles'[k].timing = obstacles[k].timing
              /\ obstacles'[k].beatNumber = obstacles[k].beatNumber
         /\ DOMAIN sprites' = DOMAIN sprites
         /\ \A i \in DOMAIN sprites :
              sprites'[i] = [sprites[i] EXCEPT !.vx = sprites'[i].vx]]_vars

\* the tempo went to 2.0 after the first obstacle was spawned: the obstacle
\* is pending and moves at the new speed, with the window of its spawn
C37_Witness ==
  /\ obsTempo = MAX_TEMPO
  /\ \E k \in DOMAIN obstacles :
       /\ obstacles[k].timing = "pending"
       /\ obstacles[k].listed
       /\ sprites[obstacles[k].sprite].vx = Velocity(MAX_TEMPO)
       /\ obstacles[k].start = FirstSpawnWindow.start
       /\ obstacles[k].end = FirstSpawnWindow.end

\* C38: at most one outcome event is emitted for an obstacle, 'obstacleHit'
\* or 'obstacleMissed': a pending obstacle has had none, a hit one exactly
\* its 'obstacleHit' and a missed one exactly its 'obstacleMissed'
C38_OneOutcomeEvent ==
  \A k \in DOMAIN obstacles :
    /\ obstacles[k].events <= 1
    /\ obstacles[k].events = 1 <=> obstacles[k].timing \in {"hit", "missed"}
    /\ obstacles[k].quality # "none" <=> obstacles[k].timing = "hit"

\* one obstacle was hit and another was missed, the missed one is gone from
\* the list after frames that reached it again, and a fifth beat has come
C38_Witness ==
  /\ beatCount >= 5
  /\ \E k, j \in DOMAIN obstacles :
       /\ obstacles[k].timing = "hit" /\ obstacles[k].events = 1
       /\ obstacles[j].timing = "missed" /\ obstacles[j].events = 1
       /\ ~obstacles[j].listed

\* C39: once dispose() was called no simulation interval is live, and two
\* simulated beats of one track run are never less than one period apart
C39_NoTimerAfterDispose ==
  /\ [](playback = "disposed" => ~simTimer.live)
  /\ [][(beatEv' # beatEv /\ beatEv' # NoBeat /\ beatEv # NoBeat)
         => beatEv'.time - beatEv.time >= SIM_BEAT_PERIOD]_vars

====
